---- MODULE Spec2Model ----
(***************************************************************************)
(* A model of export_vectorized.py: the href helpers (make_absolute_href,  *)
(* extract_path_from_href), the format normalizer                          *)
(* (convert_to_plain_svg_if_needed), the linker (inline_linked_vectors,    *)
(* inline_svg_image_element) and the pipeline of main.                     *)
(*                                                                         *)
(* Strings are sequences of one-character strings, so that prefix tests,   *)
(* URL splitting, percent-decoding and path normalisation are computed     *)
(* character by character as the Python library computes them.  Paths are  *)
(* POSIX paths (os.name = "posix"); the modelled file system holds no      *)
(* symbolic links.                                                         *)
(***************************************************************************)
EXTENDS Integers, Sequences, FiniteSets, TLC

VARIABLES
    pc,         \* position of main
    err,        \* the exception that ended main, or "none"
    nsmap,      \* prefixes declared on the input document's root element
    nested,     \* whether the input's elements sit in a <g> under the root
    inKids,     \* the input document's elements, in document order
    doc,        \* the tree inline_linked_vectors holds in memory
    tmp,        \* the two temporary files of a run: name -> state
    cleaned_svg_path,  \* the path convert_to_plain_svg_if_needed returned
    targets,    \* the list the running loop iterates over (xpath result)
    idx,        \* index of the loop's next element in targets
    warnings,   \* logger.warning calls so far
    visited,    \* history: elements each pass has handled, in order
    startImgs,  \* history: image elements of the document when each pass began
    rt          \* one reference, a disk, and its way through the two href helpers

vars == <<pc, err, nsmap, nested, inKids, doc, tmp, cleaned_svg_path,
          targets, idx, warnings, visited, startImgs, rt>>

-----------------------------------------------------------------------------
(* Bounds *)

MaxKids == 2
MaxRefLen == 3

-----------------------------------------------------------------------------
(* Python str operations *)

StartsWith(s, p) == Len(s) >= Len(p) /\ SubSeq(s, 1, Len(p)) = p

EndsWith(s, p) == Len(s) >= Len(p) /\ SubSeq(s, Len(s) - Len(p) + 1, Len(s)) = p

\* smallest index >= from of a character of cs in s, 0 when there is none
FindAny(s, cs, from) ==
    LET hits == {i \in from..Len(s) : s[i] \in cs}
    IN  IF hits = {} THEN 0 ELSE CHOOSE i \in hits : \A j \in hits : i <= j

Upper == <<"A","B","C","D","E","F","G","H","I","J","K","L","M",
           "N","O","P","Q","R","S","T","U","V","W","X","Y","Z">>
Lowercase == <<"a","b","c","d","e","f","g","h","i","j","k","l","m",
           "n","o","p","q","r","s","t","u","v","w","x","y","z">>

LowerChar(c) ==
    IF \E i \in 1..26 : Upper[i] = c
    THEN Lowercase[CHOOSE i \in 1..26 : Upper[i] = c]
    ELSE c

Lower(s) == [i \in 1..Len(s) |-> LowerChar(s[i])]

RECURSIVE SplitOn(_, _)
SplitOn(s, c) ==
    LET i == FindAny(s, {c}, 1)
    IN  IF i = 0 THEN <<s>>
        ELSE <<SubSeq(s, 1, i - 1)>> \o SplitOn(SubSeq(s, i + 1, Len(s)), c)

RECURSIVE JoinWith(_, _)
JoinWith(parts, c) ==
    IF parts = <<>> THEN <<>>
    ELSE IF Len(parts) = 1 THEN parts[1]
    ELSE parts[1] \o <<c>> \o JoinWith(Tail(parts), c)

-----------------------------------------------------------------------------
(* urllib.parse *)

\* printable ASCII, code 32 to 126 (the double quote, the backslash and
\* the grave accent are written as the one-character tokens QUOT, BSLASH, GRAVE)
Ascii == <<" ","!","QUOT","#","$","%","&","'","(",")","*","+",",","-",".","/",
           "0","1","2","3","4","5","6","7","8","9",":",";","<","=",">","?",
           "@","A","B","C","D","E","F","G","H","I","J","K","L","M","N","O",
           "P","Q","R","S","T","U","V","W","X","Y","Z","[","BSLASH","]","^","_",
           "GRAVE","a","b","c","d","e","f","g","h","i","j","k","l","m","n","o",
           "p","q","r","s","t","u","v","w","x","y","z","{","|","}","~">>

HexDigits == <<"0","1","2","3","4","5","6","7","8","9","a","b","c","d","e","f">>

IsHex(c) == \E i \in 1..16 : HexDigits[i] = LowerChar(c)

HexVal(c) == (CHOOSE i \in 1..16 : HexDigits[i] = LowerChar(c)) - 1

\* the character a decoded byte stands for; a byte outside printable ASCII is
\* kept as one opaque character (a control character, or U+FFFD)
Chr(n) == IF n >= 32 /\ n <= 126 THEN Ascii[n - 31] ELSE "NONPRINT"

\* unquote: every %XX with two hex digits is decoded, anything else is kept
RECURSIVE unquote(_)
unquote(s) ==
    IF s = <<>> THEN <<>>
    ELSE IF s[1] = "%" /\ Len(s) >= 3 /\ IsHex(s[2]) /\ IsHex(s[3])
         THEN <<Chr(16 * HexVal(s[2]) + HexVal(s[3]))>> \o unquote(SubSeq(s, 4, Len(s)))
         ELSE <<s[1]>> \o unquote(Tail(s))

\* urlparse(href).path for an href that starts with "file://": the scheme is
\* cut at the first ":", the network location runs from after "//" to the first
\* of "/", "?", "#", then the fragment is cut at the first "#" and the query at
\* the first "?"
UrlPath(href) ==
    LET url    == SubSeq(href, 6, Len(href))
        delim  == FindAny(url, {"/", "?", "#"}, 3)
        rest   == IF delim = 0 THEN <<>> ELSE SubSeq(url, delim, Len(url))
        hash   == FindAny(rest, {"#"}, 1)
        noFrag == IF hash = 0 THEN rest ELSE SubSeq(rest, 1, hash - 1)
        qm     == FindAny(noFrag, {"?"}, 1)
    IN  IF qm = 0 THEN noFrag ELSE SubSeq(noFrag, 1, qm - 1)

-----------------------------------------------------------------------------
(* pathlib (PurePosixPath / PosixPath) *)

NotDotOrEmpty(part) == part # <<>> /\ part # <<".">>

\* Path(s): the root is "//" for exactly two leading slashes, "/" for one or
\* for three and more; empty and "." components are dropped
PathOf(s) ==
    [root  |-> IF StartsWith(s, <<"/", "/">>) /\ ~StartsWith(s, <<"/", "/", "/">>)
               THEN <<"/", "/">>
               ELSE IF StartsWith(s, <<"/">>) THEN <<"/">> ELSE <<>>,
     parts |-> SelectSeq(SplitOn(s, "/"), NotDotOrEmpty)]

IsAbsolute(p) == p.root # <<>>

\* str(p), p.as_posix()
AsPosix(p) ==
    IF p.root = <<>> /\ p.parts = <<>> THEN <<".">>
    ELSE p.root \o JoinWith(p.parts, "/")

\* base / s
JoinPath(base, s) ==
    LET q == PathOf(s)
    IN  IF IsAbsolute(q) THEN q
        ELSE [root |-> base.root, parts |-> base.parts \o q.parts]

\* the working directory of the process
Cwd == PathOf(<<"/", "w">>)

RECURSIVE DropDotDot(_, _)
DropDotDot(parts, acc) ==
    IF parts = <<>> THEN acc
    ELSE IF parts[1] = <<".", ".">>
         THEN DropDotDot(Tail(parts),
                         IF acc = <<>> THEN acc ELSE SubSeq(acc, 1, Len(acc) - 1))
         ELSE DropDotDot(Tail(parts), Append(acc, parts[1]))

\* p.resolve(): absolute, ".." removed, root "/" (no symbolic links on disk)
Resolve(p) ==
    LET abs == IF IsAbsolute(p) THEN p
               ELSE [root |-> Cwd.root, parts |-> Cwd.parts \o p.parts]
    IN  [root |-> <<"/">>, parts |-> DropDotDot(abs.parts, <<>>)]

\* directories: the ancestors of the regular files, and the working directory
IsDir(fs, p) ==
    LET r == Resolve(p)
    IN  \/ r = Resolve(Cwd)
        \/ \E f \in DOMAIN fs :
              LET fp == PathOf(f).parts
              IN  Len(fp) > Len(r.parts) /\ SubSeq(fp, 1, Len(r.parts)) = r.parts

IsFile(fs, p) == AsPosix(Resolve(p)) \in DOMAIN fs

Exists(fs, p) == IsFile(fs, p) \/ IsDir(fs, p)

-----------------------------------------------------------------------------
(* make_absolute_href, extract_path_from_href *)

DataScheme  == <<"d","a","t","a",":">>
HttpScheme  == <<"h","t","t","p",":">>
HttpsScheme == <<"h","t","t","p","s",":">>
FileScheme2 == <<"f","i","l","e",":","/","/">>
FileScheme3 == <<"f","i","l","e",":","/","/","/">>
FileScheme4 == <<"f","i","l","e",":","/","/","/","/">>

\* the href is returned as it is
LeftAlone(href) ==
    \/ StartsWith(href, DataScheme)
    \/ StartsWith(href, HttpScheme)
    \/ StartsWith(href, HttpsScheme)
    \/ StartsWith(href, FileScheme3)
    \/ StartsWith(href, FileScheme4)
    \/ IsAbsolute(PathOf(href))

\* [raised |-> TRUE] for the AssertionError (the assert statement is active:
\* the interpreter does not run with -O), else the returned string
make_absolute_href(fs, href, base) ==
    IF LeftAlone(href) THEN [raised |-> FALSE, val |-> href]
    ELSE LET abs_path == Resolve(JoinPath(base, href))
         IN  IF ~IsFile(fs, abs_path)
             THEN [raised |-> TRUE, val |-> <<>>]
             ELSE [raised |-> FALSE, val |-> FileScheme3 \o AsPosix(abs_path)]

extract_path_from_href(href) ==
    IF StartsWith(href, FileScheme2)
    THEN PathOf(unquote(UrlPath(href)))
    ELSE PathOf(href)

-----------------------------------------------------------------------------
(* Numbers and attribute values *)

\* a numeric attribute value as written: digits and a unit suffix
Num(v) == [n |-> v, unit |-> ""]
Px(v)  == [n |-> v, unit |-> "px"]

\* float(s) succeeds on a bare number and raises ValueError on a suffix
FloatOk(a) == a.unit = ""

\* s.replace("px", "")
StripPx(a) == IF a.unit = "px" THEN Num(a.n) ELSE a

\* attrib.get(key, default)
Get(at, key, default) == IF key \in DOMAIN at THEN at[key] ELSE default

RECURSIVE GCD(_, _)
GCD(a, b) == IF b = 0 THEN a ELSE GCD(b, a % b)

\* the quotient a / b as a fraction in lowest terms; with a zero divisor, the
\* infinite or undefined a / 0, which Python never returns
Div(a, b) == IF b = 0 THEN <<a, 0>> ELSE LET g == GCD(a, b) IN <<a \div g, b \div g>>

\* one function of a transform list
Fn(name, args) == [fn |-> name, args |-> args]

-----------------------------------------------------------------------------
(* The document tree *)

Root == <<0, 0>>
Container == <<0, -1>>

NoAttrs == [k \in {} |-> Num(0)]

NoDoc == [kids |-> [i \in {} |-> <<>>], el |-> [i \in {} |-> [tag |-> "", at |-> NoAttrs]]]

\* etree.parse of the host document: its elements get the identities <<0, k>>
ParseHost(elems, nest) ==
    LET ids  == [k \in 1..Len(elems) |-> <<0, k>>]
        idset == {Root} \cup {ids[k] : k \in 1..Len(elems)}
                        \cup (IF nest THEN {Container} ELSE {})
    IN  [kids |-> [i \in idset |->
                     IF i = Root THEN (IF nest THEN <<Container>> ELSE ids)
                     ELSE IF i = Container THEN ids
                     ELSE <<>>],
         el   |-> [i \in idset |->
                     IF i = Root THEN [tag |-> "svg", at |-> NoAttrs]
                     ELSE IF i = Container THEN [tag |-> "g", at |-> NoAttrs]
                     ELSE elems[i[2]]]]

RECURSIVE Descend(_, _)
Descend(d, ids) ==
    IF ids = <<>> THEN <<>>
    ELSE (IF d.el[ids[1]].tag = "image" THEN <<ids[1]>> ELSE <<>>)
         \o Descend(d, d.kids[ids[1]]) \o Descend(d, Tail(ids))

\* root.xpath(".//svg:image"): the image descendants of the root, in document order
XPath(d) == Descend(d, d.kids[Root])

\* elem.getparent()
GetParent(d, e) == CHOOSE p \in DOMAIN d.kids : \E i \in 1..Len(d.kids[p]) : d.kids[p][i] = e

\* parent.replace(old, new) on the parent's list of children
ReplaceChild(children, old, new) ==
    [i \in 1..Len(children) |-> IF children[i] = old THEN new ELSE children[i]]

Without(s, x) == SelectSeq(s, LAMBDA y : y # x)

IndexOf(s, x) == CHOOSE i \in 1..Len(s) : s[i] = x

\* the iterator of "for elem in sub_root" holds the element it will yield next:
\* it fetches the following sibling before it hands the current one to the body
RECURSIVE MoveLoop(_, _, _)
MoveLoop(cur, remaining, wrapped) ==
    IF cur = 0 THEN wrapped
    ELSE LET pos  == IndexOf(remaining, cur)
             next == IF pos < Len(remaining) THEN remaining[pos + 1] ELSE 0
         IN  MoveLoop(next, Without(remaining, cur), Append(wrapped, cur))

\* an iterator that keeps an index into the shrinking list of children
RECURSIVE MoveLoopByIndex(_, _, _)
MoveLoopByIndex(i, remaining, wrapped) ==
    IF i > Len(remaining) THEN wrapped
    ELSE MoveLoopByIndex(i + 1, Without(remaining, remaining[i]),
                         Append(wrapped, remaining[i]))

MoveChildrenByIndex(n) == MoveLoopByIndex(1, [k \in 1..n |-> k], <<>>)

\* for elem in sub_root: wrapper.append(elem), over children 1..n of sub_root:
\* the children of wrapper afterwards
MoveChildren(n) == MoveLoop(IF n = 0 THEN 0 ELSE 1, [k \in 1..n |-> k], <<>>)

-----------------------------------------------------------------------------
(* inline_svg_image_element *)

Warn(msg, e) == [msg |-> msg, el |-> e]

Raised(d, e, w) == [doc |-> d, err |-> e, warn |-> w]

\* a division that returns on a zero divisor
ScaleNeverRaises(vb_width, vb_height) == FALSE

\* scale_x = width / vb_width and scale_y: float division raises
\* ZeroDivisionError on a zero divisor
ScaleRaises(vb_width, vb_height) == vb_width = 0 \/ vb_height = 0

\* the placeholder's transform put after translate and scale
TotalTransformAppended(image, x, y, scale_x, scale_y) ==
    LET transform_parts == <<Fn("translate", <<x, y>>), Fn("scale", <<scale_x, scale_y>>)>>
    IN  IF "transform" \in DOMAIN image
        THEN transform_parts \o image.transform
        ELSE transform_parts

\* transform_parts joined by " ": the placeholder's own transform list when it
\* has the attribute, then translate and scale
TotalTransform(image, x, y, scale_x, scale_y) ==
    LET transform_parts == <<Fn("translate", <<x, y>>), Fn("scale", <<scale_x, scale_y>>)>>
    IN  IF "transform" \in DOMAIN image
        THEN image.transform \o transform_parts
        ELSE transform_parts

\* lines 130-161: inline_svg_image_element from the parse of the linked file on
InlineFromParse(d, fs, e, href) ==
    LET linked_path == extract_path_from_href(href)
        image == d.el[e].at
    IN
    IF ~IsFile(fs, linked_path)
    THEN Raised(d, "OSError", <<>>)
    ELSE
    LET sub == fs[AsPosix(Resolve(linked_path))] IN
    IF sub.kind # "svg"
    THEN Raised(d, "XMLSyntaxError", <<>>)
    ELSE
    LET sub_root == sub.root
        viewBox  == Get(sub_root, "viewBox", <<>>)
        w_attr   == StripPx(Get(sub_root, "width", Num(1)))
        h_attr   == StripPx(Get(sub_root, "height", Num(1)))
        warn     == IF viewBox # <<>> THEN <<>> ELSE <<Warn("No viewBox", e)>>
    IN
    IF viewBox # <<>> /\ Len(viewBox) # 4
    THEN Raised(d, "ValueError", <<>>)
    ELSE IF viewBox = <<>> /\ ~(FloatOk(w_attr) /\ FloatOk(h_attr))
    THEN Raised(d, "ValueError", <<>>)
    ELSE
    LET vb_width  == IF viewBox # <<>> THEN viewBox[3] ELSE w_attr.n
        vb_height == IF viewBox # <<>> THEN viewBox[4] ELSE h_attr.n
        xa == Get(image, "x", Num(0))
        ya == Get(image, "y", Num(0))
        wa == Get(image, "width", Num(vb_width))
        ha == Get(image, "height", Num(vb_height))
    IN
    IF ~(FloatOk(xa) /\ FloatOk(ya) /\ FloatOk(wa) /\ FloatOk(ha))
    THEN Raised(d, "ValueError", warn)
    ELSE IF ScaleRaises(vb_width, vb_height)
    THEN Raised(d, "ZeroDivisionError", warn)
    ELSE
    LET scale_x == Div(wa.n, vb_width)
        scale_y == Div(ha.n, vb_height)
        total_transform == TotalTransform(image, <<xa.n, 1>>, <<ya.n, 1>>, scale_x, scale_y)
        wrapper == <<e[2], 0>>
        moved   == MoveChildren(Len(sub.kids))
        fresh   == {<<e[2], k>> : k \in 1..Len(sub.kids)}
        parent  == GetParent(d, e)
        ids     == ((DOMAIN d.el) \ {e}) \cup {wrapper} \cup {<<e[2], moved[k]>> : k \in 1..Len(moved)}
    IN  Raised(
          [kids |-> [i \in ids |->
                       IF i = wrapper THEN [k \in 1..Len(moved) |-> <<e[2], moved[k]>>]
                       ELSE IF i \in fresh THEN <<>>
                       ELSE IF i = parent THEN ReplaceChild(d.kids[parent], e, wrapper)
                       ELSE d.kids[i]],
           el   |-> [i \in ids |->
                       IF i = wrapper
                       THEN [tag |-> "g", at |-> [transform |-> total_transform]]
                       ELSE IF i \in fresh THEN sub.kids[i[2]]
                       ELSE d.el[i]]],
          "none", warn)

\* the function without its test of linked_path.exists()
InlineWithoutExistsTest(d, fs, e, href) == InlineFromParse(d, fs, e, href)

\* the host document d after inline_svg_image_element(e, href), the exception
\* it raised ("none" when it returned) and the warnings it logged
inline_svg_image_element(d, fs, e, href) ==
    IF ~Exists(fs, extract_path_from_href(href))
    THEN Raised(d, "none", <<Warn("Linked SVG not found", e)>>)
    ELSE InlineFromParse(d, fs, e, href)

-----------------------------------------------------------------------------
(* The files of the modelled runs *)

BaseDir == PathOf(<<"/", "d">>)

Image(at) == [tag |-> "image", at |-> at]
Rect == [tag |-> "rect", at |-> NoAttrs]
PathEl == [tag |-> "path", at |-> NoAttrs]

Raster == [kind |-> "png", root |-> NoAttrs, kids |-> <<>>]
Broken == [kind |-> "bad", root |-> NoAttrs, kids |-> <<>>]
Svg(root, kids) == [kind |-> "svg", root |-> root, kids |-> kids]

A_png   == <<"a", ".", "p", "n", "g">>
M_png   == <<"m", ".", "p", "n", "g">>
C_png   == <<"c", "#", ".", "p", "n", "g">>
B_svg   == <<"b", ".", "s", "v", "g">>
Z_svg   == <<"z", ".", "s", "v", "g">>
Y_svg   == <<"y", ".", "s", "v", "g">>
N_svg   == <<"n", ".", "s", "v", "g">>
K_svg   == <<"k", ".", "s", "v", "g">>
U_SVG   == <<"u", ".", "S", "V", "G">>
M_svg   == <<"m", ".", "s", "v", "g">>
InBase(name) == <<"/", "d", "/">> \o name
DataUri  == DataScheme \o <<"x">>
HttpUri  == HttpScheme \o <<"/", "/", "h", "/">> \o B_svg
HttpsUri == HttpsScheme \o <<"/", "/", "h", "/">> \o A_png
FileUri  == FileScheme3 \o <<"d", "/">> \o B_svg

DotSvg == <<".", "s", "v", "g">>

Rotate45 == <<Fn("rotate", <<<<45, 1>>>>)>>

\* the directory /d of the host document
Disk ==
    (InBase(A_png) :> Raster)
    @@ (InBase(C_png) :> Raster)
    @@ (InBase(B_svg) :> Svg([viewBox |-> <<0, 0, 50, 25>>],
                             <<Rect, Image([href |-> A_png]), PathEl>>))
    @@ (InBase(Z_svg) :> Svg([viewBox |-> <<0, 0, 0, 25>>], <<Rect>>))
    @@ (InBase(Y_svg) :> Svg([width |-> Num(0), height |-> Num(10)], <<Rect>>))
    @@ (InBase(N_svg) :> Svg([width |-> Px(200), height |-> Px(100)],
                             <<Image([href |-> B_svg]), Image([href |-> N_svg]), Rect, PathEl>>))
    @@ (InBase(U_SVG) :> Svg(NoAttrs, <<>>))
    @@ (InBase(K_svg) :> Broken)

\* the elements an input document is built from
Elements ==
    { Rect,
      Image(NoAttrs),
      Image([href |-> A_png, x |-> Num(5)]),
      Image([href |-> M_png]),
      Image([href |-> C_png]),
      Image([href |-> DataUri]),
      Image([href |-> HttpUri]),
      Image([href |-> HttpsUri]),
      Image([href |-> InBase(A_png)]),
      Image([href |-> InBase(M_svg)]),
      Image([href |-> FileUri, width |-> Num(25)]),
      Image([href |-> B_svg, x |-> Num(10), y |-> Num(20), width |-> Num(100), height |-> Num(50)]),
      Image([href |-> B_svg, transform |-> Rotate45]),
      Image([href |-> N_svg, width |-> Num(100), height |-> Num(150)]),
      Image([href |-> B_svg, height |-> Px(50)]),
      Image([href |-> U_SVG, width |-> Num(3)]),
      Image([href |-> Z_svg, width |-> Num(10)]),
      Image([href |-> Y_svg]),
      Image([href |-> K_svg]) }

SeqsUpTo(S, n) == UNION {[1..k -> S] : k \in 1..n}

-----------------------------------------------------------------------------
(* State *)

NoTmp == [plain_svg_path |-> "none", inlined_svg_path |-> "none"]

NoRt == [stage |-> "off", disk |-> [f \in {} |-> Raster], ref |-> <<>>, uri |-> <<>>,
         path |-> PathOf(<<>>)]

AuthoringPrefixes == {"inkscape", "sodipodi"}

Init ==
    /\ pc = "convert"
    /\ err = "none"
    /\ nsmap \in {{"svg", "xlink"}, {"svg", "xlink", "inkscape"}, {"svg", "sodipodi"}}
    /\ nested \in BOOLEAN
    /\ inKids \in SeqsUpTo(Elements, MaxKids)
    /\ doc = NoDoc
    /\ tmp = NoTmp
    /\ cleaned_svg_path = "none"
    /\ targets = <<>>
    /\ idx = 1
    /\ warnings = <<>>
    /\ visited = <<<<>>, <<>>>>
    /\ startImgs = <<<<>>, <<>>>>
    /\ rt = NoRt

Fail(e) == pc' = "failed" /\ err' = e

-----------------------------------------------------------------------------
(* convert_to_plain_svg_if_needed *)

\* lines 72-85: parse the input, look for an authoring prefix on the root, and
\* create the temporary file when there is one
ConvertDetect ==
    /\ pc = "convert"
    /\ \E parses \in BOOLEAN :
         IF ~parses
         THEN Fail("XMLSyntaxError") /\ UNCHANGED <<tmp, cleaned_svg_path>>
         ELSE IF nsmap \cap AuthoringPrefixes # {}
         THEN /\ tmp' = [tmp EXCEPT !.plain_svg_path = "empty"]
              /\ pc' = "convert_run"
              /\ UNCHANGED <<err, cleaned_svg_path>>
         ELSE /\ cleaned_svg_path' = "input"
              /\ pc' = "link"
              /\ UNCHANGED <<err, tmp>>
    /\ UNCHANGED <<nsmap, nested, inKids, doc, targets, idx,
                   warnings, visited, startImgs, rt>>

\* a test that only looks for the file
OutputRejectedIfMissing(out) == out = "none"

\* line 105: the output file is rejected when it is missing or empty
OutputRejected(out) == out \in {"none", "empty"}

\* lines 87-109: the conversion subprocess leaves the temporary file in some
\* state and returns a status; the tests on both
ConvertRun ==
    /\ pc = "convert_run"
    /\ \E returncode \in {0, 1}, out \in {"valid", "garbage", "empty", "none"} :
         /\ tmp' = [tmp EXCEPT !.plain_svg_path = out]
         /\ IF returncode # 0
            THEN Fail("RuntimeError") /\ UNCHANGED cleaned_svg_path
            ELSE IF OutputRejected(out)
            THEN Fail("RuntimeError") /\ UNCHANGED cleaned_svg_path
            ELSE cleaned_svg_path' = "plain" /\ pc' = "link" /\ UNCHANGED err
    /\ UNCHANGED <<nsmap, nested, inKids, doc, targets, idx,
                   warnings, visited, startImgs, rt>>

-----------------------------------------------------------------------------
(* inline_linked_vectors *)

\* the list as it would be if the loop looked at the document on every turn
LiveTargets == XPath(doc)

\* the list a pass iterates over: the result of the xpath call made when the
\* pass began
LoopTargets == targets

\* lines 176-183: parse the document and evaluate the first loop's xpath (a
\* converted document holds the elements of the input)
LinkParse ==
    /\ pc = "link"
    /\ IF cleaned_svg_path = "plain" /\ tmp.plain_svg_path = "garbage"
       THEN Fail("XMLSyntaxError") /\ UNCHANGED <<doc, targets, startImgs>>
       ELSE LET d == ParseHost(inKids, nested)
            IN  /\ doc' = d
                /\ targets' = XPath(d)
                /\ startImgs' = [startImgs EXCEPT ![1] = XPath(d)]
                /\ pc' = "pass1"
                /\ UNCHANGED err
    /\ idx' = 1
    /\ UNCHANGED <<nsmap, nested, inKids, tmp, cleaned_svg_path,
                   warnings, visited, rt>>

SetHref(d, e, new_href) ==
    [d EXCEPT !.el[e].at = [k \in DOMAIN d.el[e].at |->
                              IF k = "href" THEN new_href ELSE d.el[e].at[k]]]

\* lines 184-194: one turn of the first loop
Pass1Step ==
    /\ pc = "pass1"
    /\ idx <= Len(LoopTargets)
    /\ LET image == LoopTargets[idx]
           href  == Get(doc.el[image].at, "href", <<>>)
           made  == make_absolute_href(Disk, href, BaseDir)
       IN  /\ visited' = [visited EXCEPT ![1] = Append(@, image)]
           /\ IF href = <<>>
              THEN UNCHANGED <<doc, warnings, pc, err>>
              ELSE IF made.raised
              THEN Fail("AssertionError") /\ UNCHANGED <<doc, warnings>>
              ELSE IF made.val = href
              THEN UNCHANGED <<doc, warnings, pc, err>>
              ELSE IF Exists(Disk, extract_path_from_href(made.val))
              THEN doc' = SetHref(doc, image, made.val) /\ UNCHANGED <<warnings, pc, err>>
              ELSE /\ warnings' = Append(warnings, Warn("Linked file not found", image))
                   /\ UNCHANGED <<doc, pc, err>>
    /\ idx' = idx + 1
    /\ UNCHANGED <<nsmap, nested, inKids, tmp, cleaned_svg_path,
                   targets, startImgs, rt>>

\* line 197: the first loop is over; evaluate the second loop's xpath
Pass2Begin ==
    /\ pc = "pass1"
    /\ idx > Len(LoopTargets)
    /\ targets' = XPath(doc)
    /\ startImgs' = [startImgs EXCEPT ![2] = XPath(doc)]
    /\ idx' = 1
    /\ pc' = "pass2"
    /\ UNCHANGED <<err, nsmap, nested, inKids, doc, tmp, cleaned_svg_path,
                   warnings, visited, rt>>

\* lines 198-202: one turn of the second loop
Pass2Step ==
    /\ pc = "pass2"
    /\ idx <= Len(LoopTargets)
    /\ LET image == LoopTargets[idx]
           href  == Get(doc.el[image].at, "href", <<>>)
       IN  /\ visited' = [visited EXCEPT ![2] = Append(@, image)]
           /\ IF href = <<>> \/ ~EndsWith(Lower(href), DotSvg)
              THEN UNCHANGED <<doc, warnings, pc, err>>
              ELSE LET r == inline_svg_image_element(doc, Disk, image, href)
                   IN  /\ doc' = r.doc
                       /\ warnings' = warnings \o r.warn
                       /\ IF r.err = "none" THEN UNCHANGED <<pc, err>> ELSE Fail(r.err)
    /\ idx' = idx + 1
    /\ UNCHANGED <<nsmap, nested, inKids, tmp, cleaned_svg_path,
                   targets, startImgs, rt>>

\* lines 205-210: write the tree to a new temporary file and return its path
LinkWrite ==
    /\ pc = "pass2"
    /\ idx > Len(LoopTargets)
    /\ tmp' = [tmp EXCEPT !.inlined_svg_path = "valid"]
    /\ pc' = "unlink"
    /\ UNCHANGED <<err, nsmap, nested, inKids, doc, cleaned_svg_path,
                   targets, idx, warnings, visited, startImgs, rt>>

-----------------------------------------------------------------------------
(* main *)

\* lines 262-264
UnlinkPlain ==
    /\ pc = "unlink"
    /\ tmp' = IF cleaned_svg_path # "input" THEN [tmp EXCEPT !.plain_svg_path = "none"] ELSE tmp
    /\ pc' = "export"
    /\ UNCHANGED <<err, nsmap, nested, inKids, doc, cleaned_svg_path,
                   targets, idx, warnings, visited, startImgs, rt>>

\* lines 266-270: export_to_pdf, and the finally clause that unlinks the
\* linked temporary file
Export ==
    /\ pc = "export"
    /\ \E returncode \in {0, 1} :
         IF returncode # 0
         THEN Fail("RuntimeError")
         ELSE pc' = "done" /\ UNCHANGED err
    /\ tmp' = [tmp EXCEPT !.inlined_svg_path = "none"]
    /\ UNCHANGED <<nsmap, nested, inKids, doc, cleaned_svg_path,
                   targets, idx, warnings, visited, startImgs, rt>>

Next ==
    \/ ConvertDetect
    \/ ConvertRun
    \/ LinkParse
    \/ Pass1Step
    \/ Pass2Begin
    \/ Pass2Step
    \/ LinkWrite
    \/ UnlinkPlain
    \/ Export

Spec == Init /\ [][Next]_vars

-----------------------------------------------------------------------------
(* The two href helpers on their own: a reference is made absolute against *)
(* BaseDir, and the result is turned back into a path.                     *)

RefAlphabet == {"x", "/", ".", "%", "#", "?", " ", "2", "0"}

RefStrings == SeqsUpTo(RefAlphabet, MaxRefLen)

\* the file a reference points at from BaseDir
Target(ref) == Resolve(JoinPath(BaseDir, ref))

\* a disk where the reference's target is a regular file (a target that is
\* BaseDir or one of its ancestors is a directory, and stays one)
DiskWith(ref) ==
    IF Len(Target(ref).parts) = 0 \/ Target(ref) = Resolve(BaseDir)
    THEN (InBase(<<"o">>) :> Raster)
    ELSE (AsPosix(Target(ref)) :> Raster) @@ (InBase(<<"o">>) :> Raster)

InitHref ==
    /\ pc = "href"
    /\ err = "none"
    /\ nsmap = {}
    /\ nested = FALSE
    /\ inKids = <<>>
    /\ doc = NoDoc
    /\ tmp = NoTmp
    /\ cleaned_svg_path = "none"
    /\ targets = <<>>
    /\ idx = 1
    /\ warnings = <<>>
    /\ visited = <<<<>>, <<>>>>
    /\ startImgs = <<<<>>, <<>>>>
    /\ \E ref \in RefStrings :
         \E disk \in {DiskWith(ref), (InBase(<<"o">>) :> Raster)} :
            rt = [NoRt EXCEPT !.stage = "ref", !.ref = ref, !.disk = disk]

\* make_absolute_href(ref, BaseDir)
HrefAbsolutize ==
    /\ rt.stage = "ref"
    /\ LET made == make_absolute_href(rt.disk, rt.ref, BaseDir)
       IN  rt' = IF made.raised
                 THEN [rt EXCEPT !.stage = "raised"]
                 ELSE [rt EXCEPT !.stage = "uri", !.uri = made.val]
    /\ UNCHANGED <<pc, err, nsmap, nested, inKids, doc, tmp, cleaned_svg_path,
                   targets, idx, warnings, visited, startImgs>>

\* extract_path_from_href of what make_absolute_href returned
HrefExtract ==
    /\ rt.stage = "uri"
    /\ rt' = [rt EXCEPT !.stage = "path", !.path = extract_path_from_href(rt.uri)]
    /\ UNCHANGED <<pc, err, nsmap, nested, inKids, doc, tmp, cleaned_svg_path,
                   targets, idx, warnings, visited, startImgs>>

NextHref == HrefAbsolutize \/ HrefExtract

SpecHref == InitHref /\ [][NextHref]_vars

-----------------------------------------------------------------------------
(* Properties of the href helpers *)

\* C3: for a relative reference whose target under BaseDir is a regular file,
\* the path extract_path_from_href gives for the result of make_absolute_href
\* is, once resolved, the resolved target.
RoundTrip ==
    (rt.stage = "path" /\ ~LeftAlone(rt.ref) /\ IsFile(rt.disk, Target(rt.ref)))
        => Resolve(rt.path) = Target(rt.ref)

-----------------------------------------------------------------------------
(* Properties of the pipeline *)

Terminated == pc \in {"done", "failed"}

LinkingDone == pc \in {"unlink", "export", "done"}

\* the host document as parsed, before any pass
HostDoc == ParseHost(inKids, nested)

\* the link reference element <<0, k>> of the input carries ("" when none)
OrigHref(k) == Get(inKids[k].at, "href", <<>>)

IsRelative(h) == h # <<>> /\ ~LeftAlone(h)

IsPlainAbsolutePath(h) == IsAbsolute(PathOf(h))

\* the file a reference of the host document points at
Linked(h) ==
    IF IsRelative(h) THEN Target(h) ELSE extract_path_from_href(h)

HasGroup(k) == <<k, 0>> \in DOMAIN doc.el

\* C1: when main has ended, with or without an exception, neither temporary
\* file of the run exists.
NoTempFileAtExit == Terminated => tmp = NoTmp

\* C2: an image handled by the first pass whose reference is relative and has
\* no regular file behind it does not end the run: a warning is logged for it
\* and its href stays as it was.
MissingRelativeIsSoft ==
    \A i \in 1..Len(visited[1]) :
        LET e == visited[1][i]
            h == OrigHref(e[2])
        IN  (IsRelative(h) /\ ~IsFile(Disk, Target(h)))
            => /\ ~(pc = "failed" /\ err = "AssertionError")
               /\ \E w \in 1..Len(warnings) :
                      warnings[w] = Warn("Linked file not found", e)
               /\ e \in DOMAIN doc.el => doc.el[e].at.href = h

\* C4: once linking is over, every image of the host document whose reference
\* pointed at an existing local file, relative or absolute, has a file:///
\* reference, and every data:, http: or https: reference is as it was.
LocalRefsSchemeQualified ==
    LinkingDone =>
        \A k \in 1..Len(inKids) :
            LET h == OrigHref(k)
                e == <<0, k>>
            IN  (e \in DOMAIN doc.el /\ h # <<>>) =>
                  /\ ((IsRelative(h) \/ IsPlainAbsolutePath(h)) /\ IsFile(Disk, Linked(h)))
                        => StartsWith(doc.el[e].at.href, FileScheme3)
                  /\ (StartsWith(h, DataScheme) \/ StartsWith(h, HttpScheme)
                        \/ StartsWith(h, HttpsScheme))
                        => doc.el[e].at.href = h


\* the content of the file a reference of the host document points at
LinkedContent(k) == Disk[AsPosix(Resolve(Linked(OrigHref(k))))]

\* the viewport of a linked document: width and height of its viewBox, else
\* its width and height attributes, each 1 when absent
Viewport(sub) ==
    IF "viewBox" \in DOMAIN sub.root
    THEN <<sub.root.viewBox[3], sub.root.viewBox[4]>>
    ELSE <<IF "width" \in DOMAIN sub.root THEN sub.root.width.n ELSE 1,
           IF "height" \in DOMAIN sub.root THEN sub.root.height.n ELSE 1>>

\* the second loop is about to call inline_svg_image_element on an image whose
\* linked path is not on disk
CallOnMissing ==
    /\ pc = "pass2"
    /\ idx <= Len(targets)
    /\ LET href == Get(doc.el[targets[idx]].at, "href", <<>>)
       IN  /\ href # <<>>
           /\ EndsWith(Lower(href), DotSvg)
           /\ ~Exists(Disk, extract_path_from_href(href))

\* C5: a call of inline_svg_image_element on a placeholder whose linked path
\* is not on disk returns without an exception and leaves the host document
\* as it was: same elements, same attributes, same children everywhere.
MissingLinkedLeavesDocument ==
    [][CallOnMissing => (doc' = doc /\ err' = "none" /\ pc' = "pass2")]_vars

\* a call on a missing linked path has returned, and the loop has gone on
MissingLinkedSkipped ==
    /\ \E w \in 1..Len(warnings) : warnings[w].msg = "Linked SVG not found"
    /\ pc = "unlink"
    /\ err = "none"

\* the transform list the group of placeholder k must carry
ExpectedTransform(k) ==
    LET at == inKids[k].at
        vp == Viewport(LinkedContent(k))
        x  == IF "x" \in DOMAIN at THEN at.x.n ELSE 0
        y  == IF "y" \in DOMAIN at THEN at.y.n ELSE 0
        w  == IF "width" \in DOMAIN at THEN at.width.n ELSE vp[1]
        h  == IF "height" \in DOMAIN at THEN at.height.n ELSE vp[2]
    IN  (IF "transform" \in DOMAIN at THEN at.transform ELSE <<>>)
        \o <<Fn("translate", <<<<x, 1>>, <<y, 1>>>>),
             Fn("scale", <<Div(w, vp[1]), Div(h, vp[2])>>)>>

\* C6: the group of every inlined placeholder carries the placeholder's own
\* transform (when it had one), then translate(x, y), then
\* scale(width / viewport width, height / viewport height), in that order.
GroupTransformComposed ==
    \A k \in 1..Len(inKids) :
        HasGroup(k) => doc.el[<<k, 0>>].at.transform = ExpectedTransform(k)

\* x=10, y=20, width=100, height=50 over a 0 0 50 25 viewBox gives
\* translate(10,20) scale(2,2), and a rotate(45) comes before both
TransformExamples ==
    /\ \E k \in 1..Len(inKids) :
          /\ inKids[k].at = [href |-> B_svg, x |-> Num(10), y |-> Num(20),
                             width |-> Num(100), height |-> Num(50)]
          /\ HasGroup(k)
          /\ doc.el[<<k, 0>>].at.transform =
                <<Fn("translate", <<<<10, 1>>, <<20, 1>>>>),
                  Fn("scale", <<<<2, 1>>, <<2, 1>>>>)>>
    /\ \E k \in 1..Len(inKids) :
          /\ "transform" \in DOMAIN inKids[k].at
          /\ HasGroup(k)
          /\ doc.el[<<k, 0>>].at.transform[1] = Fn("rotate", <<<<45, 1>>>>)
          /\ doc.el[<<k, 0>>].at.transform[2].fn = "translate"
          /\ doc.el[<<k, 0>>].at.transform[3].fn = "scale"

\* the exceptions the code raises for a malformed document: markup that does
\* not parse, a dimension that is no number, a viewport dimension of zero
MalformedDocumentError == {"XMLSyntaxError", "ValueError", "ZeroDivisionError"}

\* the file behind image e of the host document is an SVG document whose
\* viewport has a zero width or height
ZeroViewport(e) ==
    LET h == OrigHref(e[2])
    IN  /\ h # <<>>
        /\ EndsWith(Lower(h), DotSvg)
        /\ IsFile(Disk, Linked(h))
        /\ LinkedContent(e[2]).kind = "svg"
        /\ (Viewport(LinkedContent(e[2]))[1] = 0 \/ Viewport(LinkedContent(e[2]))[2] = 0)

\* C7: an image the second pass has handled whose linked document has a
\* viewport dimension of zero has ended the run with a malformed-document
\* exception, is still in the host document with no group in its place, and
\* no group anywhere carries a scale with a zero divisor.
ZeroViewportAborts ==
    /\ \A i \in 1..Len(visited[2]) :
          LET e == visited[2][i]
          IN  (e[1] = 0 /\ ZeroViewport(e))
              => /\ pc = "failed"
                 /\ err \in MalformedDocumentError
                 /\ e \in DOMAIN doc.el
                 /\ doc.el[e].tag = "image"
                 /\ DOMAIN doc.el[e].at = DOMAIN HostDoc.el[e].at
                 /\ \A a \in DOMAIN doc.el[e].at \ {"href"} :
                        doc.el[e].at[a] = HostDoc.el[e].at[a]
                 /\ GetParent(doc, e) = GetParent(HostDoc, e)
                 /\ ~HasGroup(e[2])
    /\ \A g \in DOMAIN doc.el :
          (doc.el[g].tag = "g" /\ "transform" \in DOMAIN doc.el[g].at)
              => \A t \in 1..Len(doc.el[g].at.transform) :
                    \A a \in 1..Len(doc.el[g].at.transform[t].args) :
                        doc.el[g].at.transform[t].args[a][2] # 0

\* the second pass has called inline_svg_image_element on an image whose
\* linked document has a zero viewport dimension
ZeroViewportReached ==
    /\ err = "ZeroDivisionError"
    /\ Len(visited[2]) > 0
    /\ ZeroViewport(visited[2][Len(visited[2])])

IsPrefix(s, t) == Len(s) <= Len(t) /\ SubSeq(t, 1, Len(s)) = s

SomeGroup == \E k \in 1..Len(inKids) : HasGroup(k)

\* C9: no group is in the document before the first pass has handled every
\* image of the host document; each pass handles, in document order, the
\* images that were in the document when it began, and none that an inlining
\* brought in.
PassesSequential ==
    /\ SomeGroup => (visited[1] = XPath(HostDoc) /\ pc \notin {"link", "pass1"})
    /\ \A p \in {1, 2} : IsPrefix(visited[p], startImgs[p])
    /\ pc \in {"pass2", "unlink", "export", "done"} => visited[1] = startImgs[1]
    /\ LinkingDone => visited[2] = startImgs[2]
    /\ \A i \in 1..Len(visited[2]) : visited[2][i][1] = 0

\* the second pass is over, it inlined a document that brought images in, and
\* it went on to a later image of the host document
InlinedImagesNotVisited ==
    /\ LinkingDone
    /\ Len(visited[2]) >= 2
    /\ HasGroup(visited[2][1][2])
    /\ \E c \in 1..Len(doc.kids[<<visited[2][1][2], 0>>]) :
          doc.el[doc.kids[<<visited[2][1][2], 0>>][c]].tag = "image"

\* the element of the host document that holds the input's elements
Holder == IF nested THEN Container ELSE Root

InDocument(d, e) == \E p \in DOMAIN d.kids : \E i \in 1..Len(d.kids[p]) : d.kids[p][i] = e

\* C10: the group of an inlined placeholder stands where the placeholder
\* stood among its parent's children, the siblings are where they were, the
\* placeholder is gone, and the group's children are the linked root's
\* children, all of them, once each, in their order.
GroupReplacesPlaceholder ==
    doc # NoDoc =>
        /\ Len(doc.kids[Holder]) = Len(inKids)
        /\ doc.kids[Root] = (IF nested THEN <<Container>> ELSE doc.kids[Holder])
        /\ \A k \in 1..Len(inKids) :
              IF HasGroup(k)
              THEN /\ doc.kids[Holder][k] = <<k, 0>>
                   /\ ~InDocument(doc, <<0, k>>)
                   /\ <<0, k>> \notin DOMAIN doc.el
                   /\ doc.el[<<k, 0>>].tag = "g"
                   /\ doc.kids[<<k, 0>>] =
                        [j \in 1..Len(LinkedContent(k).kids) |-> <<k, j>>]
                   /\ \A j \in 1..Len(LinkedContent(k).kids) :
                        doc.el[<<k, j>>] = LinkedContent(k).kids[j]
              ELSE doc.kids[Holder][k] = <<0, k>>

\* a group with three children and more stands behind an untouched sibling
GroupAmongSiblings ==
    /\ LinkingDone
    /\ nested
    /\ Len(inKids) >= 2
    /\ ~HasGroup(1)
    /\ HasGroup(2)
    /\ Len(doc.kids[<<2, 0>>]) >= 3

====
